---- MODULE Spec2Model ----
(***************************************************************************)
(* Model of the clash dashboard: the paginated war-log fetcher of          *)
(* fetch_data.py, and the cache / audit / render batch of main.py.         *)
(*                                                                         *)
(* Three specifications share the variables:                               *)
(*   SpecFetch  - fetch_deep_war_log against a cursor-paginated source     *)
(*   Spec       - main.py main(): cache reads, live fetches, audit, render *)
(*   SpecStatus - the status logic of the audit as a function of           *)
(*                (decks, target)                                          *)
(***************************************************************************)
EXTENDS Integers, Sequences, FiniteSets, TLC

VARIABLES
    \* ---- fetch_data.py fetch_deep_war_log ----
    fpc,          \* "off" | "loop" | "done"
    all_logs,     \* the accumulated items
    cursor,       \* the local `cursor` (NoCursor is Python's None)
    page_count,   \* the local `page_count`
    source,       \* the remote endpoint: page served for each `after` key
    requests,     \* number of fetch_api calls issued so far
    sent,         \* `after` parameter carried by the last request
    declared,     \* next-page cursor declared by the last response
    pages,        \* the non-empty pages received, in request order
    lastOutcome,  \* shape of the last response
    asked,        \* `after` keys of all the requests issued
    \* ---- main.py main() ----
    pc,           \* position in main()
    now,          \* time.time(), in seconds
    cache,        \* data/*.json: dataset -> file
    clan, war, war_log,
    readAge,      \* dataset -> age of its file when load_json_if_fresh looked
    fetched,      \* datasets fetch_api was called for
    saved,        \* datasets save_json was called for
    target_decks, audit_results, stats,
    rendered,     \* templates the render loop has been through
    exit_code,    \* -1 while running, else the exit status
    \* ---- status logic on its own ----
    s_pc, s_decks, s_target, s_missing, s_status

fetchVars == <<fpc, all_logs, cursor, page_count, source, requests, sent,
               declared, pages, lastOutcome, asked>>
mainVars == <<pc, now, cache, clan, war, war_log, readAge, fetched, saved,
              target_decks, audit_results, stats, rendered, exit_code>>
statusVars == <<s_pc, s_decks, s_target, s_missing, s_status>>
vars == <<fetchVars, mainVars, statusVars>>

(***************************************************************************)
(* Bounds of the model.                                                    *)
(***************************************************************************)
MaxShortPage == 1     \* pages hold 1..MaxShortPage items, or a full PageSize
MaxMembers == 2       \* roster length
MaxParticipants == 2  \* war participants
MaxDecks == 4         \* decksUsed of a participant
MaxStatusArg == 17    \* decks and target of the status logic on its own
MaxTicks == 1         \* seconds that pass during one run of main()

(***************************************************************************)
(* fetch_data.py: fetch_deep_war_log                                       *)
(***************************************************************************)
max_pages == 20
PageSize == 10

NoCursor == "<None>"
Cursors == {"", "c1", "c2"}
Keys == {NoCursor} \cup Cursors

\* Python truthiness of `cursor` (None and "" are falsy).
Truthy(c) == c # NoCursor /\ c # ""

PageLens == (1..MaxShortPage) \cup {PageSize}

\* The items of the page the source serves for `after` = key.
PageItems(key, n) == [i \in 1..n |-> <<key, i>>]

Unset == [len |-> 0, paging |-> "unset", after |-> NoCursor]

\* What the source can hold for one key: a non-empty page and its paging block.
PageShapes ==
    {[len |-> n, paging |-> p, after |-> NoCursor] :
        n \in PageLens, p \in {"nopaging", "nocursors", "noafter"}}
    \cup {[len |-> n, paging |-> "after", after |-> c] : n \in PageLens, c \in Cursors}

\* Return values of fetch_api (None on any failure, else the decoded JSON).
Absent == [kind |-> "absent", items |-> <<>>, paging |-> "nopaging", after |-> NoCursor]
EmptyDict == [kind |-> "emptydict", items |-> <<>>, paging |-> "nopaging", after |-> NoCursor]
NoItems == [kind |-> "noitems", items |-> <<>>, paging |-> "after", after |-> "c1"]
EmptyItems == [kind |-> "empty", items |-> <<>>, paging |-> "after", after |-> "c1"]
PageData(key, shape) ==
    [kind |-> "page", items |-> PageItems(key, shape.len),
     paging |-> shape.paging, after |-> shape.after]

\* Mutant of StopsOnData: a failed request does not end the loop.
StopsOnDataButFailure(data) ==
    /\ data.kind # "absent"
    /\ (data.kind \in {"emptydict", "noitems"} \/ data.items = <<>>)

\* `not data or "items" not in data or not data["items"]`
StopsOnData(data) ==
    \/ data.kind \in {"absent", "emptydict"}
    \/ data.kind = "noitems"
    \/ data.items = <<>>

\* `"paging" in data and "cursors" in data["paging"] and "after" in ...["cursors"]`
HasNextCursor(data) ==
    /\ data.paging # "nopaging"
    /\ data.paging # "nocursors"
    /\ data.paging = "after"

\* params["after"] of the request: set only `if cursor:`
AfterParam(c) == IF Truthy(c) THEN c ELSE NoCursor

\* Mutant of Extend: a page is put in front of the earlier ones.
ExtendFront(logs, items) == items \o logs

\* all_logs.extend(items)
Extend(logs, items) == logs \o items

\* Mutant of LoopGuard: off by one.
LoopGuardInclusive(n) == n <= max_pages

\* `while page_count < max_pages`
LoopGuard(n) == n < max_pages

InitFetch ==
    /\ fpc = "loop"
    /\ all_logs = <<>>
    /\ cursor = NoCursor
    /\ page_count = 0
    /\ source = [k \in Keys |-> Unset]
    /\ requests = 0
    /\ sent = NoCursor
    /\ declared = NoCursor
    /\ pages = <<>>
    /\ lastOutcome = "none"
    /\ asked = <<>>

\* One iteration of the while loop, for the response `data` to its request.
Iterate(key, data) ==
    /\ requests' = requests + 1
    /\ sent' = key
    /\ asked' = Append(asked, key)
    /\ lastOutcome' = data.kind
    /\ IF StopsOnData(data)
       THEN /\ fpc' = "done"
            /\ UNCHANGED <<all_logs, cursor, page_count, pages>>
            /\ declared' = NoCursor
       ELSE /\ all_logs' = Extend(all_logs, data.items)
            /\ pages' = Append(pages, [items |-> data.items, next |-> HasNextCursor(data)])
            /\ IF HasNextCursor(data)
               THEN /\ cursor' = data.after
                    /\ page_count' = page_count + 1
                    /\ declared' = data.after
                    /\ fpc' = "loop"
               ELSE /\ UNCHANGED <<cursor, page_count>>
                    /\ declared' = NoCursor
                    /\ fpc' = "done"

\* The request fails or the source has nothing (more) to give.
FetchStop ==
    /\ fpc = "loop"
    /\ LoopGuard(page_count)
    /\ \E data \in {Absent, EmptyDict, NoItems, EmptyItems} :
          Iterate(AfterParam(cursor), data)
    /\ UNCHANGED <<source, mainVars, statusVars>>

\* The source serves the page of the requested key.
FetchPage ==
    /\ fpc = "loop"
    /\ LoopGuard(page_count)
    /\ LET key == AfterParam(cursor) IN
       \E shape \in PageShapes :
          /\ source[key] \in {Unset, shape}
          /\ source' = [source EXCEPT ![key] = shape]
          /\ Iterate(key, PageData(key, shape))
    /\ UNCHANGED <<mainVars, statusVars>>

\* The safety limit ends the loop.
LoopExit ==
    /\ fpc = "loop"
    /\ ~LoopGuard(page_count)
    /\ fpc' = "done"
    /\ UNCHANGED <<all_logs, cursor, page_count, source, requests, sent,
                   declared, pages, lastOutcome, asked>>
    /\ UNCHANGED <<mainVars, statusVars>>

NextFetch == FetchStop \/ FetchPage \/ LoopExit

(***************************************************************************)
(* main.py: helpers                                                        *)
(***************************************************************************)
ttl_minutes == 10
TTLSeconds == ttl_minutes * 60

Datasets == {"clan_info", "current_war", "war_log"}

\* JSON documents, and Python's None.
None == [kind |-> "none", origin |-> "-", members |-> <<>>, parts |-> <<>>]
Doc(kind, origin, members, parts) ==
    [kind |-> kind, origin |-> origin, members |-> members, parts |-> parts]

\* `not x` for a document x
Falsy(doc) == doc.kind \in {"none", "emptydict"}

NoFile == [exists |-> FALSE, mtime |-> 0, readable |-> FALSE, payload |-> None]
File(mtime, readable, payload) ==
    [exists |-> TRUE, mtime |-> mtime, readable |-> readable, payload |-> payload]

\* Mutant of IsFresh: a file exactly ttl old still counts as fresh.
IsFreshInclusive(t, mtime, ttl) == (t - mtime) <= (ttl * 60)

\* `(time.time() - mtime) < (ttl_minutes * 60)`
IsFresh(t, mtime, ttl) == (t - mtime) < (ttl * 60)

\* load_json_if_fresh: the payload of a fresh, readable file, else None.
load_json_if_fresh(file, t, ttl) ==
    IF ~file.exists THEN None
    ELSE IF IsFresh(t, file.mtime, ttl)
         THEN (IF file.readable THEN file.payload ELSE None)
         ELSE None

\* save_json: overwrites the file and stamps the time; a failure is only logged.
save_json(files, d, data, t, ok) ==
    IF ok THEN [files EXCEPT ![d] = File(t, TRUE, data)] ELSE files

\* Mutant of AbortsOnClan: the run goes on without a roster.
NeverAborts(doc) == FALSE

\* `if not clan:` after the live fetch - the batch aborts.
AbortsOnClan(doc) == Falsy(doc)

(***************************************************************************)
(* main.py: temporal policy and audit                                      *)
(***************************************************************************)
Weekdays == 0..6

\* (the table of the source, without its accents)
day_names == <<"Segunda", "Terca", "Quarta", "Quinta", "Sexta", "Sabado", "Domingo">>

get_war_day_context(weekday) ==
    [day_name |-> day_names[weekday + 1],
     war_day |-> IF 3 <= weekday /\ weekday <= 6 THEN weekday - 2 ELSE 4,
     target_decks |-> CASE weekday = 3 -> 4
                        [] weekday = 4 -> 8
                        [] weekday = 5 -> 12
                        [] weekday = 6 -> 16
                        [] OTHER -> 16]

\* `war and "clan" in war and "participants" in war["clan"]`
HasParticipants(w) ==
    /\ ~Falsy(w)
    /\ w.kind # "war_noclan"
    /\ w.kind # "war_noparts"

\* clan.get("memberList", [])
MemberList(c) == IF c.kind = "clan" THEN c.members ELSE <<>>

\* participants.get(tag, {}).get("decksUsed", 0), participants being the dict
\* {p["tag"]: p for p in war["clan"]["participants"]} (the last entry of a tag wins).
DecksOf(tag, parts) ==
    LET idx == {i \in 1..Len(parts) : parts[i].tag = tag} IN
    IF idx = {} THEN 0
    ELSE LET p == parts[CHOOSE i \in idx : \A j \in idx : j <= i] IN
         IF p.hasDecks THEN p.decksUsed ELSE 0

Max(a, b) == IF a >= b THEN a ELSE b

\* Mutant of Missing: the deficit is not clamped at 0.
MissingUnclamped(target, decks) == target - decks

\* missing = max(0, target_decks - decks)
Missing(target, decks) == Max(0, target - decks)

\* The status logic.
StatusOf(decks, missing) ==
    IF decks = 0 THEN "danger"
    ELSE IF missing > 0 THEN "warning"
    ELSE "success"

ZeroStats == [on_track |-> 0, warning |-> 0, danger |-> 0]

\* stats[...] += 1 of the branch taken
Tally(st, status) ==
    CASE status = "danger" -> [st EXCEPT !.danger = @ + 1]
      [] status = "warning" -> [st EXCEPT !.warning = @ + 1]
      [] OTHER -> [st EXCEPT !.on_track = @ + 1]

\* `for member in clan.get("memberList", [])`: results and stats after the loop.
RECURSIVE AuditLoop(_, _, _, _)
AuditLoop(members, parts, target, acc) ==
    IF members = <<>> THEN acc
    ELSE LET member == Head(members)
             decks == DecksOf(member.tag, parts)
             missing == Missing(target, decks)
             status == StatusOf(decks, missing)
         IN AuditLoop(Tail(members), parts, target,
                [results |-> Append(acc.results,
                                [name |-> member.name, role |-> member.role,
                                 decks_used |-> decks, missing |-> missing,
                                 status |-> status]),
                 stats |-> Tally(acc.stats, status)])

\* The audit of lines 183-212: skipped unless the war carries participants.
Audit(c, w, target) ==
    IF HasParticipants(w)
    THEN AuditLoop(MemberList(c), w.parts, target, [results |-> <<>>, stats |-> ZeroStats])
    ELSE [results |-> <<>>, stats |-> ZeroStats]

Rank(status) == IF status = "danger" THEN 0 ELSE IF status = "warning" THEN 1 ELSE 2

\* Mutant of SortKey: decks_used ascending.
SortKeyAscending(x) == <<Rank(x.status), x.decks_used>>

\* The sort key: (rank of the status, -decks_used)
SortKey(x) == <<Rank(x.status), 0 - x.decks_used>>

\* Tuple comparison k1 <= k2
KeyLeq(k1, k2) == k1[1] < k2[1] \/ (k1[1] = k2[1] /\ k1[2] <= k2[2])

\* list.sort(key=...): a stable sort, ascending in the key.
RECURSIVE SortAudit(_)
SortAudit(s) ==
    IF s = <<>> THEN <<>>
    ELSE LET front == SortAudit(SubSeq(s, 1, Len(s) - 1))
             x == s[Len(s)]
             p == Cardinality({i \in 1..Len(front) : KeyLeq(SortKey(front[i]), SortKey(x))})
         IN SubSeq(front, 1, p) \o <<x>> \o SubSeq(front, p + 1, Len(front))

templates == <<"index.html", "audit.html", "war_history.html", "members_stats.html", "ranking.html">>

(***************************************************************************)
(* Documents the model draws from                                          *)
(***************************************************************************)
Tags == {"#A", "#B", "#C"}

NameOf(tag) == CASE tag = "#A" -> "Ana" [] tag = "#B" -> "Bia" [] OTHER -> "Caio"

Member(tag) == [tag |-> tag, name |-> NameOf(tag), role |-> "member"]

Participant(tag, n) == [tag |-> tag, hasDecks |-> TRUE, decksUsed |-> n]

\* A participant record without a decksUsed field.
BareParticipant(tag) == [tag |-> tag, hasDecks |-> FALSE, decksUsed |-> 0]

SeqsUpTo(S, n) == UNION {[1..k -> S] : k \in 0..n}

Distinct(s) == \A i, j \in 1..Len(s) : i # j => s[i].tag # s[j].tag

Rosters == {r \in SeqsUpTo({Member(t) : t \in Tags}, MaxMembers) : Distinct(r)}

ParticipantLists ==
    {q \in SeqsUpTo({Participant(t, n) : t \in Tags, n \in 0..MaxDecks}
                    \cup {BareParticipant(t) : t \in Tags}, MaxParticipants) : Distinct(q)}

\* The JSON document {}.
EmptyDoc == Doc("emptydict", "live", <<>>, <<>>)

\* Every roster and every war snapshot the audit can be given.
AuditClans ==
    {Doc("clan", "live", r, <<>>) : r \in Rosters} \cup {Doc("clan_nomembers", "live", <<>>, <<>>)}
AuditWars ==
    {None, EmptyDoc, Doc("war_noclan", "live", <<>>, <<>>),
     Doc("war_noparts", "live", <<>>, <<>>)}
    \cup {Doc("war", "live", <<>>, q) : q \in ParticipantLists}

\* What the cache files hold at the start of a run of main().
Cached(d) ==
    CASE d = "clan_info" -> Doc("clan", "cache", <<Member("#A")>>, <<>>)
      [] d = "current_war" -> Doc("war", "cache", <<>>, <<Participant("#A", 2)>>)
      [] OTHER -> Doc("log", "cache", <<>>, <<>>)

\* What the API answers during the run.
LiveClans ==
    {Doc("clan", "live", <<Member("#A"), Member("#B")>>, <<>>),
     Doc("clan_nomembers", "live", <<>>, <<>>)}
LiveWars ==
    {Doc("war", "live", <<>>, <<Participant("#A", MaxDecks), Participant("#C", 1)>>),
     Doc("war_noparts", "live", <<>>, <<>>)}
LiveLogs == {Doc("log", "live", <<>>, <<>>)}

\* A file of a dataset before the run: none, written TTL-1 or TTL seconds ago,
\* or unreadable.
CacheFiles(d) ==
    {NoFile, File(0, FALSE, None)}
    \cup {File(0 - age, TRUE, Cached(d)) : age \in {TTLSeconds - 1, TTLSeconds}}

NoRead == [looked |-> FALSE, exists |-> FALSE, age |-> 0]
ReadOf(file, t) == [looked |-> TRUE, exists |-> file.exists, age |-> t - file.mtime]

(***************************************************************************)
(* main.py: main()                                                         *)
(***************************************************************************)
InitMainRest ==
    /\ now = 0
    /\ readAge = [d \in Datasets |-> NoRead]
    /\ fetched = {}
    /\ saved = {}
    /\ target_decks = 0
    /\ audit_results = <<>>
    /\ stats = ZeroStats
    /\ rendered = <<>>
    /\ exit_code = -1

InitMain ==
    /\ pc = "load_clan"
    /\ cache \in {f \in [Datasets -> UNION {CacheFiles(d) : d \in Datasets}] :
                    \A d \in Datasets : f[d] \in CacheFiles(d)}
    /\ clan = None
    /\ war = None
    /\ war_log = None
    /\ InitMainRest

\* clan = load_json_if_fresh("clan_info.json")
LoadClan ==
    /\ pc = "load_clan"
    /\ \E dt \in 0..1 :
          /\ now + dt <= MaxTicks
          /\ now' = now + dt
          /\ clan' = load_json_if_fresh(cache["clan_info"], now + dt, ttl_minutes)
          /\ readAge' = [readAge EXCEPT !["clan_info"] = ReadOf(cache["clan_info"], now + dt)]
    /\ pc' = IF Falsy(clan') THEN "fetch_clan" ELSE "load_war"
    /\ UNCHANGED <<cache, war, war_log, fetched, saved, target_decks,
                   audit_results, stats, rendered, exit_code>>
    /\ UNCHANGED <<fetchVars, statusVars>>

\* clan = fetch_api(...); abort, or save_json(clan, "clan_info.json")
FetchClan ==
    /\ pc = "fetch_clan"
    /\ \E data \in {None, EmptyDoc} \cup LiveClans, ok \in BOOLEAN :
          /\ clan' = data
          /\ fetched' = fetched \cup {"clan_info"}
          /\ IF AbortsOnClan(data)
             THEN /\ pc' = "exit"
                  /\ exit_code' = 1
                  /\ UNCHANGED <<cache, saved>>
             ELSE /\ cache' = save_json(cache, "clan_info", data, now, ok)
                  /\ saved' = saved \cup {"clan_info"}
                  /\ pc' = "load_war"
                  /\ UNCHANGED exit_code
    /\ UNCHANGED <<now, war, war_log, readAge, target_decks, audit_results, stats, rendered>>
    /\ UNCHANGED <<fetchVars, statusVars>>

\* war = load_json_if_fresh("current_war.json")
LoadWar ==
    /\ pc = "load_war"
    /\ \E dt \in 0..1 :
          /\ now + dt <= MaxTicks
          /\ now' = now + dt
          /\ war' = load_json_if_fresh(cache["current_war"], now + dt, ttl_minutes)
          /\ readAge' = [readAge EXCEPT !["current_war"] = ReadOf(cache["current_war"], now + dt)]
    /\ pc' = IF Falsy(war') THEN "fetch_war" ELSE "load_log"
    /\ UNCHANGED <<cache, clan, war_log, fetched, saved, target_decks,
                   audit_results, stats, rendered, exit_code>>
    /\ UNCHANGED <<fetchVars, statusVars>>

\* war = fetch_api(...); if war: save_json(war, "current_war.json")
FetchWar ==
    /\ pc = "fetch_war"
    /\ \E data \in {None, EmptyDoc} \cup LiveWars, ok \in BOOLEAN :
          /\ war' = data
          /\ fetched' = fetched \cup {"current_war"}
          /\ IF Falsy(data)
             THEN UNCHANGED <<cache, saved>>
             ELSE /\ cache' = save_json(cache, "current_war", data, now, ok)
                  /\ saved' = saved \cup {"current_war"}
    /\ pc' = "load_log"
    /\ UNCHANGED <<now, clan, war_log, readAge, target_decks, audit_results,
                   stats, rendered, exit_code>>
    /\ UNCHANGED <<fetchVars, statusVars>>

\* war_log = load_json_if_fresh("war_log.json")
LoadWarLog ==
    /\ pc = "load_log"
    /\ \E dt \in 0..1 :
          /\ now + dt <= MaxTicks
          /\ now' = now + dt
          /\ war_log' = load_json_if_fresh(cache["war_log"], now + dt, ttl_minutes)
          /\ readAge' = [readAge EXCEPT !["war_log"] = ReadOf(cache["war_log"], now + dt)]
    /\ pc' = IF Falsy(war_log') THEN "fetch_log" ELSE "process"
    /\ UNCHANGED <<cache, clan, war, fetched, saved, target_decks,
                   audit_results, stats, rendered, exit_code>>
    /\ UNCHANGED <<fetchVars, statusVars>>

\* war_log = fetch_api(...); if war_log: save_json(war_log, "war_log.json")
FetchWarLog ==
    /\ pc = "fetch_log"
    /\ \E data \in {None, EmptyDoc} \cup LiveLogs, ok \in BOOLEAN :
          /\ war_log' = data
          /\ fetched' = fetched \cup {"war_log"}
          /\ IF Falsy(data)
             THEN UNCHANGED <<cache, saved>>
             ELSE /\ cache' = save_json(cache, "war_log", data, now, ok)
                  /\ saved' = saved \cup {"war_log"}
    /\ pc' = "process"
    /\ UNCHANGED <<now, clan, war, readAge, target_decks, audit_results,
                   stats, rendered, exit_code>>
    /\ UNCHANGED <<fetchVars, statusVars>>

\* "Process Data": the war-day context, the audit and its sort.
Process ==
    /\ pc = "process"
    /\ \E weekday \in Weekdays :
          LET audit_info == get_war_day_context(weekday)
              audit == Audit(clan, war, audit_info.target_decks)
          IN /\ target_decks' = audit_info.target_decks
             /\ audit_results' = SortAudit(audit.results)
             /\ stats' = audit.stats
    /\ pc' = "render"
    /\ UNCHANGED <<now, cache, clan, war, war_log, readAge, fetched, saved,
                   rendered, exit_code>>
    /\ UNCHANGED <<fetchVars, statusVars>>

\* One template of the render loop.  A render failure is caught and logged and
\* the loop goes on; the model keeps which templates the loop has been through.
Render ==
    /\ pc = "render"
    /\ Len(rendered) < Len(templates)
    /\ rendered' = Append(rendered, templates[Len(rendered) + 1])
    /\ UNCHANGED <<pc, now, cache, clan, war, war_log, readAge, fetched, saved,
                   target_decks, audit_results, stats, exit_code>>
    /\ UNCHANGED <<fetchVars, statusVars>>

\* "=== GENERATION COMPLETE ==="
Finish ==
    /\ pc = "render"
    /\ Len(rendered) = Len(templates)
    /\ pc' = "done"
    /\ exit_code' = 0
    /\ UNCHANGED <<now, cache, clan, war, war_log, readAge, fetched, saved,
                   target_decks, audit_results, stats, rendered>>
    /\ UNCHANGED <<fetchVars, statusVars>>

NextMain ==
    \/ LoadClan \/ FetchClan \/ LoadWar \/ FetchWar \/ LoadWarLog \/ FetchWarLog
    \/ Process \/ Render \/ Finish

(***************************************************************************)
(* The status logic on its own                                             *)
(***************************************************************************)
InitStatus ==
    /\ s_pc = "in"
    /\ s_decks \in 0..MaxStatusArg
    /\ s_target \in 0..MaxStatusArg
    /\ s_missing = 0
    /\ s_status = "-"

\* lines 194-204 for one member
Classify ==
    /\ s_pc = "in"
    /\ s_missing' = Missing(s_target, s_decks)
    /\ s_status' = StatusOf(s_decks, Missing(s_target, s_decks))
    /\ s_pc' = "out"
    /\ UNCHANGED <<s_decks, s_target>>
    /\ UNCHANGED <<fetchVars, mainVars>>

(***************************************************************************)
(* Specifications                                                          *)
(***************************************************************************)
IdleFetch ==
    /\ fpc = "off"
    /\ all_logs = <<>>
    /\ cursor = NoCursor
    /\ page_count = 0
    /\ source = [k \in Keys |-> Unset]
    /\ requests = 0
    /\ sent = NoCursor
    /\ declared = NoCursor
    /\ pages = <<>>
    /\ lastOutcome = "none"
    /\ asked = <<>>

IdleMain ==
    /\ pc = "off"
    /\ cache = [d \in Datasets |-> NoFile]
    /\ clan = None
    /\ war = None
    /\ war_log = None
    /\ InitMainRest

IdleStatus ==
    /\ s_pc = "off"
    /\ s_decks = 0
    /\ s_target = 0
    /\ s_missing = 0
    /\ s_status = "-"

\* main.py main(), from an arbitrary cache
Init == InitMain /\ IdleFetch /\ IdleStatus
Next == NextMain
Spec == Init /\ [][Next]_vars

\* The audit step of main(), for every roster and war snapshot
InitAudit ==
    /\ pc = "process"
    /\ cache = [d \in Datasets |-> NoFile]
    /\ clan \in AuditClans
    /\ war \in AuditWars
    /\ war_log = None
    /\ InitMainRest
    /\ IdleFetch
    /\ IdleStatus
SpecAudit == InitAudit /\ [][Process]_vars

\* fetch_deep_war_log
FetchInit == InitFetch /\ IdleMain /\ IdleStatus
SpecFetch == FetchInit /\ [][NextFetch]_vars
FairSpecFetch == SpecFetch /\ WF_vars(NextFetch)

\* the status logic
StatusInit == InitStatus /\ IdleFetch /\ IdleMain
SpecStatus == StatusInit /\ [][Classify]_vars

(***************************************************************************)
(* Properties                                                              *)
(***************************************************************************)
Audited == pc \in {"render", "done"}

StatsTotal == stats.on_track + stats.warning + stats.danger

RECURSIVE Concat(_)
Concat(ps) == IF ps = <<>> THEN <<>> ELSE ps[1].items \o Concat(Tail(ps))

\* C1 (as stated): in the audit list, for A before B, rank(A.status) <=
\* rank(B.status), and on equal ranks A.decksUsed <= B.decksUsed.
C1_SortedDecksAscending ==
    Audited =>
        \A i, j \in 1..Len(audit_results) :
            i < j =>
                /\ Rank(audit_results[i].status) <= Rank(audit_results[j].status)
                /\ (Rank(audit_results[i].status) = Rank(audit_results[j].status)
                        => audit_results[i].decks_used <= audit_results[j].decks_used)

\* C1 (amended): in the audit list, for A before B, rank(A.status) <=
\* rank(B.status), and on equal ranks A.decksUsed >= B.decksUsed: the
\* secondary key is decksUsed descending.
C1_SortedDecksDescending ==
    Audited =>
        \A i, j \in 1..Len(audit_results) :
            i < j =>
                /\ Rank(audit_results[i].status) <= Rank(audit_results[j].status)
                /\ (Rank(audit_results[i].status) = Rank(audit_results[j].status)
                        => audit_results[i].decks_used >= audit_results[j].decks_used)

\* Two results of one rank with different decksUsed.
C1_Witness ==
    /\ Audited
    /\ \E i, j \in 1..Len(audit_results) :
          /\ i < j
          /\ audit_results[i].status = audit_results[j].status
          /\ audit_results[i].decks_used > audit_results[j].decks_used

\* C2: after the audit, on_track + warning + danger is the number of members of
\* the roster, whatever the war snapshot is.
C2_StatsCoverRoster == Audited => StatsTotal = Len(MemberList(clan))

\* C3: with the war snapshot absent the audit still has one result per roster
\* member, each with decksUsed = 0 and missing = target; and a member who is not
\* among the participants has decksUsed = 0.
C3_AbsentWarAuditsEveryone ==
    Audited =>
        /\ Falsy(war) =>
              /\ Len(audit_results) = Len(MemberList(clan))
              /\ \A i \in 1..Len(audit_results) :
                    /\ audit_results[i].decks_used = 0
                    /\ audit_results[i].missing = target_decks
        /\ HasParticipants(war) =>
              /\ Len(audit_results) = Len(MemberList(clan))
              /\ \A m \in {MemberList(clan)[k] : k \in 1..Len(MemberList(clan))} :
                    (\A q \in 1..Len(war.parts) : war.parts[q].tag # m.tag)
                        => \E i \in 1..Len(audit_results) :
                              /\ audit_results[i].name = m.name
                              /\ audit_results[i].decks_used = 0

C5_TerminatesWithinBound ==
    /\ <>(fpc = "done")
    /\ [](requests <= max_pages /\ Len(all_logs) <= max_pages * PageSize)

\* The source gave a full page and a cursor on every request.
C5_Witness ==
    /\ fpc = "done"
    /\ requests = max_pages
    /\ Len(pages) = max_pages
    /\ \A i \in 1..Len(pages) : pages[i].next /\ Len(pages[i].items) = PageSize
    /\ Len(all_logs) = max_pages * PageSize

\* C6: after k < 20 non-empty pages that each declare a cursor and then an
\* empty page, k + 1 requests were made and the result is the pages' items,
\* each page in its order and the pages in request order.
C6_PagesThenEmpty ==
    (/\ fpc = "done"
     /\ lastOutcome = "empty"
     /\ Len(pages) < max_pages
     /\ \A i \in 1..Len(pages) : pages[i].next)
        => (requests = Len(pages) + 1 /\ all_logs = Concat(pages))

\* 3 pages of 10 items, then an empty page: 30 items, 4 requests.
C6_Witness ==
    /\ fpc = "done"
    /\ lastOutcome = "empty"
    /\ Len(pages) = 3
    /\ \A i \in 1..Len(pages) : pages[i].next /\ Len(pages[i].items) = PageSize
    /\ pages[1] # pages[2]
    /\ Len(all_logs) = 3 * PageSize
    /\ requests = 4

\* C7: when the n-th request fails the function issues no further request and
\* returns the items of requests 1..n-1; nothing when n = 1.
C7_FailureReturnsPartial ==
    (fpc = "done" /\ lastOutcome = "absent") =>
        /\ Len(pages) = requests - 1
        /\ all_logs = Concat(pages)
        /\ requests = 1 => all_logs = <<>>
        /\ ~ENABLED NextFetch

\* The third request failed after two pages.
C7_Witness ==
    /\ fpc = "done"
    /\ lastOutcome = "absent"
    /\ requests = 3
    /\ Len(all_logs) > 0

\* The document main() holds for a dataset.
DocOf(d) == CASE d = "clan_info" -> clan [] d = "current_war" -> war [] OTHER -> war_log

\* C8: a cached payload is used only if its file was younger than the ttl when
\* read; a read leaves the file as it is; a file changes only in a step that
\* fetched the dataset successfully, and then holds the fetched document.
C8_StaleNeverUsed ==
    /\ [](\A d \in Datasets :
            DocOf(d).origin = "cache" =>
                (readAge[d].looked /\ readAge[d].exists /\ readAge[d].age < TTLSeconds))
    /\ [][\A d \in Datasets :
            /\ readAge'[d] # readAge[d] => cache'[d] = cache[d]
            /\ cache'[d] # cache[d] =>
                  /\ d \in fetched' /\ d \notin fetched
                  /\ ~Falsy(DocOf(d)')
                  /\ cache'[d].payload = DocOf(d)'
                  /\ cache'[d].payload.origin = "live"]_vars

\* A stale current_war file, a failed live fetch: the report has no war and
\* the stale file is still there.
C8_Witness ==
    /\ Audited
    /\ readAge["current_war"].exists
    /\ readAge["current_war"].age >= TTLSeconds
    /\ "current_war" \in fetched
    /\ war = None
    /\ cache["current_war"].payload = Cached("current_war")

\* C9: with the roster absent after the cache read and the live fetch the batch
\* exits with status 1, nothing rendered, no later dataset read, fetched or
\* written; whenever rendering is reached the roster is present; a run aborts
\* only for the roster.
C9_RosterOrAbort ==
    /\ ("clan_info" \in fetched /\ Falsy(clan)) => (pc = "exit" /\ exit_code = 1)
    /\ pc = "exit" =>
          /\ exit_code = 1
          /\ Falsy(clan)
          /\ rendered = <<>>
          /\ fetched = {"clan_info"}
          /\ saved = {}
          /\ ~readAge["current_war"].looked
          /\ ~readAge["war_log"].looked
          /\ ~ENABLED Next
    /\ (pc \in {"render", "done"} \/ rendered # <<>>) => ~Falsy(clan)
    /\ exit_code \notin {-1, 0} => Falsy(clan)
    /\ pc = "done" => (exit_code = 0 /\ Len(rendered) = Len(templates))

\* The roster file is missing or unusable and the live fetch failed.
C9_Witness ==
    /\ pc = "exit"
    /\ readAge["clan_info"].looked
    /\ "clan_info" \in fetched
    /\ clan = None

\* C10: the first request carries no cursor, and every later request carries
\* as `after` the cursor the preceding response declared.
C10_CursorCarried ==
    [][requests' = requests + 1 =>
          sent' = (IF requests = 0 THEN NoCursor ELSE declared)]_vars

====
